---- MODULE Spec2Model ----
(***************************************************************************)
(* A state-machine model of the work-stealing job system of jobsystem.h:   *)
(* JobState, JobSystemWorker, JobManager and JobChainBuilder.              *)
(*                                                                         *)
(* Threads are the worker threads 1..nWorkers (WorkerThreadProc) and the   *)
(* user thread Main, which builds a dependency graph with a                *)
(* JobChainBuilder, releases it with Go() and then assists.  Cancel() may  *)
(* be called on any job at any time, from any user thread or callable.     *)
(*                                                                         *)
(* Granularity: one step per access to a shared atomic (m_cancel, m_ready  *)
(* with m_dependencies, each fetch_add of SetDone, the store of m_done),   *)
(* per mutex acquisition and per condition-variable operation.  A mutex    *)
(* release is taken together with the step before it.  JobManager::        *)
(* Shutdown is called in the runs of SpecAssist, SpecShutdown and          *)
(* SpecCreate only; in the others m_stop stays false and the two tests of  *)
(* it in WorkerThreadProc fall through.                                    *)
(* std::atomic members that the JobState constructor does not mention      *)
(* (m_cancel, m_dependencies) are value-initialised, as std::atomic's      *)
(* default constructor does since C++20.                                   *)
(***************************************************************************)
EXTENDS Integers, Sequences, FiniteSets, TLC

\* ------------------------------------------------------------------ bounds
MaxWorkers == 2      \* JobManagerDesciptor::m_workers.size() ranges over 1..MaxWorkers
MaxJobNodes == 4     \* template parameter of JobChainBuilder (node pool capacity)
MaxCancels == 1      \* number of JobState::Cancel() calls made by user code

MaxJobs == MaxJobNodes - 1   \* the sentinel takes one node, so at most this many jobs
JobIds == 1..MaxJobs
NodeIds == 1..MaxJobNodes
Main == 0                    \* the user thread; worker threads are 1..nWorkers
ThreadIds == 0..MaxWorkers

\* ------------------------------------------------------- builder programs
\* The fluent call sequences the user thread issues before Go().
Rep(op, n) == [i \in 1..n |-> op]
Chain(n) == [i \in 1..(2 * n - 1) |-> IF i % 2 = 1 THEN "Do" ELSE "Then"]
Flat(n) == Rep("Do", n)
Group(k) == <<"Together">> \o Rep("Do", k) \o <<"Close", "Then", "Do">>
PredGroup(k) == <<"Do", "Then", "Together">> \o Rep("Do", k) \o <<"Close">>
TogetherFlat(n) == <<"Together">> \o Rep("Do", n)
\* More Do() calls than the pool has nodes, and further calls after them.
Overflow == Rep("Do", MaxJobNodes) \o <<"Then", "Together", "Do", "Close">>

\* JobManager::AddJob called by the user, without the builder: nothing ever
\* calls SetReady on the state it returns.
Unreadied == {<<"AddJob">>, <<"Do", "AddJob">>}

\* Programs that order jobs with Then(); all of them fit the node pool.
OrderedPrograms ==
    {Chain(n) : n \in 2..MaxJobs}
    \cup {Group(k) : k \in 1..(MaxJobs - 2)}
    \cup {PredGroup(k) : k \in 1..(MaxJobs - 2)}

Programs ==
    OrderedPrograms
    \cup {Flat(n) : n \in 1..MaxJobNodes}
    \cup {TogetherFlat(MaxJobNodes - 1)}
    \cup {Overflow}
    \cup Unreadied

VARIABLES
    nWorkers,      \* JobManager::m_workers.size()
    queue,         \* JobSystemWorker::m_queue, front first, per worker
    qlock,         \* JobSystemWorker::m_queueLock: holder thread, or -1
    signalLock,    \* s_signalLock: holder thread, or -1
    rr,            \* JobManager::m_nextRoundRobinWorkerIndex (0-based)
    nJobs,         \* number of JobState objects made so far
    ready,         \* JobState::m_ready
    done,          \* JobState::m_done
    cancel,        \* JobState::m_cancel
    deps,          \* JobState::m_dependencies
    dependants,    \* JobState::m_dependants
    th,            \* per thread: program counter and locals
    asst,          \* locals of AssistUntilDone / AssistUntilJobDone on Main
    b,             \* the JobChainBuilder
    prog,          \* the builder program Main issues
    ip,            \* number of builder calls issued so far
    goIdx,         \* Go(): index into m_allJobs
    crashed,       \* the process died on a null dereference
    m_stop,        \* JobSystemWorker::m_stop, per worker
    m_hasShutDown, \* JobSystemWorker::m_hasShutDown, per worker
    finishJobs,    \* the finishJobs argument of a running JobManager::Shutdown
    m_enableWorkStealing, \* JobWorkerDescriptor::m_enableWorkStealing, per worker
    \* history variables
    opJob,         \* job made by the i-th builder call, 0 if none
    started,       \* the job's callable has begun
    finished,      \* the job's callable has returned
    setDoneCalls,  \* number of SetDone() invocations on the job's state
    cancelErased,  \* the entry was erased by the cancel branch of a scan
    cancelInQueue, \* Cancel() was called while the entry was still queued
    nCancels       \* number of Cancel() calls so far

vars == <<nWorkers, queue, qlock, signalLock, rr, nJobs, ready, done, cancel,
          deps, dependants, th, asst, b, prog, ip, goIdx, crashed, opJob,
          started, finished, setDoneCalls, cancelErased, cancelInQueue, nCancels,
          m_stop, m_hasShutDown, finishJobs, m_enableWorkStealing>>

jobVars == <<ready, done, cancel, deps, dependants>>
bldVars == <<b, prog, ip, goIdx, opJob>>
stopVars == <<m_stop, m_hasShutDown, finishJobs, m_enableWorkStealing>>

NoLock == -1

\* Node(): isGroup(false), groupDependency(nullptr); job is a null JobStatePtr.
Node == [isGroup |-> FALSE, groupDependency |-> 0, job |-> 0]

\* The locals of a thread that is not inside any call.
IdleThread(p) ==
    [pc |-> p, job |-> 0, owner |-> 0, q |-> 0, idx |-> 0, i |-> 0,
     steal |-> FALSE, sdJob |-> 0, sdIdx |-> 0, sdRet |-> "none"]

IsWorker(t) == t \in 1..nWorkers

\* ------------------------------------------------------------ JobState
\* (AreDependenciesMet_ReadyOnly is the slip of leaving the counter out.)
\* JobState::AreDependenciesMet: m_ready, then m_dependencies > 0.  (The two
\* loads are taken as one: m_ready only ever goes to true, and every
\* AddDependant of a builder graph precedes the store of m_ready.)
AreDependenciesMet_ReadyOnly(j) == ready[j]

AreDependenciesMet(j) ==
    IF ~ready[j] THEN FALSE
    ELSE IF deps[j] > 0 THEN FALSE
    ELSE TRUE

\* JobState::AwaitingCancellation
AwaitingCancellation(j) == cancel[j]

\* (IsDone_Ready is the slip of loading m_ready for m_done.)
IsDone_Ready(j) == ready[j]

\* JobState::IsDone
IsDone(j) == done[j]

\* s_signalThreads.notify_all(): every thread blocked in wait() is released;
\* it has to take s_signalLock again and then tests the wait loop's
\* condition, as a worker at the top of WorkerThreadProc's loop does.
NotifyAll(thr) ==
    [t \in ThreadIds |->
        IF thr[t].pc = "w_waiting" THEN [thr[t] EXCEPT !.pc = "w_lockSignal"] ELSE thr[t]]

\* s_signalThreads.notify_one(): the thread waked, if any is waiting.
Waiting(thr) == {t \in ThreadIds : thr[t].pc = "w_waiting"}

\* JobState::AddDependant applied for a sequence of <<predecessor, dependant>>
\* pairs: m_dependants.push_back, then fetch_add(1) on the dependant.
RECURSIVE AddDependants(_, _)
AddDependants(st, es) ==
    IF es = <<>> THEN st
    ELSE LET p == es[1][1]
             d == es[1][2]
         IN AddDependants(
                [dependants |-> [st.dependants EXCEPT ![p] = Append(@, d)],
                 deps |-> [st.deps EXCEPT ![d] = @ + 1]],
                Tail(es))

\* ------------------------------------------------------- JobChainBuilder
\* JobChainBuilder::AllocNode: the node handed out, 0 for nullptr.
AllocNode(bb) ==
    IF bb.m_nextNodeIndex >= MaxJobNodes THEN 0 ELSE bb.m_nextNodeIndex + 1

\* JobChainBuilder::Reset
Reset ==
    [nodes |-> [n \in NodeIds |-> Node], m_nextNodeIndex |-> 0, m_stack |-> <<>>,
     m_allJobs |-> <<>>, m_last |-> 0, m_dependency |-> 0, m_failed |-> FALSE]

\* JobChainBuilder constructor: Reset(), then the sentinel node is pushed.
NewBuilder ==
    LET s == AllocNode(Reset)
    IN [Reset EXCEPT !.m_stack = <<s>>,
                     !.m_nextNodeIndex = IF s = 0 THEN @ ELSE @ + 1]

\* The AddDependant calls of JobChainBuilder::Do for the new job j, in order.
DoDependencyEdge(bb, j) ==
    IF bb.m_dependency # 0 THEN << <<bb.nodes[bb.m_dependency].job, j>> >> ELSE <<>>

\* (DoGroupEdges_NoJoin is the slip of not making the member a predecessor
\* of the group's join job.)
DoGroupEdges_NoJoin(bb, owner, j) ==
    IF owner # 0 /\ bb.nodes[owner].isGroup /\ bb.nodes[owner].groupDependency # 0
    THEN << <<bb.nodes[bb.nodes[owner].groupDependency].job, j>> >>
    ELSE <<>>

DoGroupEdges(bb, owner, j) ==
    IF owner # 0 /\ bb.nodes[owner].isGroup
    THEN << <<j, bb.nodes[owner].job>> >>
         \o (IF bb.nodes[owner].groupDependency # 0
             THEN << <<bb.nodes[bb.nodes[owner].groupDependency].job, j>> >>
             ELSE <<>>)
    ELSE <<>>

\* (TogetherGroupDependency_None is the slip of dropping the cursor.)
TogetherGroupDependency_None(bb) == 0

\* The group dependency JobChainBuilder::Together records in the group node.
TogetherGroupDependency(bb) == bb.m_dependency

\* The value JobChainBuilder::Close leaves in m_last.
CloseLast(bb) ==
    IF bb.m_stack # <<>> /\ bb.nodes[bb.m_stack[Len(bb.m_stack)]].isGroup
    THEN bb.m_stack[Len(bb.m_stack)]
    ELSE bb.m_last

\* Main's program counter after a builder call: Go() follows the last one.
AfterOp(bb) ==
    IF ip + 1 < Len(prog) THEN "m_build"
    ELSE IF bb.m_allJobs = <<>> THEN "m_idle" ELSE "go_set"

BuildStep(op) ==
    /\ ~crashed
    /\ th[Main].pc = "m_build"
    /\ ip < Len(prog)
    /\ prog[ip + 1] = op
    /\ ip' = ip + 1
    /\ goIdx' = 1
    /\ UNCHANGED <<nWorkers, signalLock, qlock, asst, prog, crashed, ready, done,
                   started, finished, setDoneCalls, cancelErased, nCancels, stopVars>>

\* Main's thread record after a builder call.
MainAfterOp(bb) == [th EXCEPT ![Main].pc = AfterOp(bb)]

\* JobChainBuilder::Fail: Cancel() on every job made so far.
Fail(bb) ==
    /\ cancel' = [j \in JobIds |-> cancel[j] \/ (\E k \in 1..Len(bb.m_allJobs) : bb.m_allJobs[k] = j)]
    /\ cancelInQueue' =
          [j \in JobIds |->
              cancelInQueue[j]
              \/ (/\ \E k \in 1..Len(bb.m_allJobs) : bb.m_allJobs[k] = j
                  /\ \E w \in 1..nWorkers : \E k \in 1..Len(queue[w]) : queue[w][k] = j)]
    /\ b' = [bb EXCEPT !.m_failed = TRUE]
    /\ th' = MainAfterOp(bb)
    /\ opJob' = Append(opJob, 0)
    /\ UNCHANGED <<queue, rr, nJobs, deps, dependants>>

\* JobManager::AddJob with JobSystemWorker::PushJob: a new state (SetActive:
\* not done; not ready), inserted at the front of the round-robin worker's
\* queue under its m_queueLock.
AddJobGuard == rr < nWorkers /\ qlock[rr + 1] = NoLock
AddJobTarget == rr + 1
AddJobNextIndex_Stuck == rr
AddJobNextIndex == (rr + 1) % nWorkers

PushJob(w, j) == [queue EXCEPT ![w] = <<j>> \o @]

\* JobManager::AddJob, called by the user thread itself.
AddJob ==
    /\ BuildStep("AddJob")
    /\ AddJobGuard
    /\ queue' = PushJob(AddJobTarget, nJobs + 1)
    /\ rr' = AddJobNextIndex
    /\ nJobs' = nJobs + 1
    /\ opJob' = Append(opJob, nJobs + 1)
    /\ th' = MainAfterOp(b)
    /\ UNCHANGED <<b, cancel, cancelInQueue, deps, dependants>>

\* JobChainBuilder::Do
Do ==
    /\ BuildStep("Do")
    /\ LET owner == b.m_stack[Len(b.m_stack)]
           item == AllocNode(b)
           j == nJobs + 1
       IN IF item # 0
          THEN /\ AddJobGuard
               /\ queue' = PushJob(AddJobTarget, j)
               /\ rr' = AddJobNextIndex
               /\ nJobs' = j
               /\ LET st == AddDependants([dependants |-> dependants, deps |-> deps],
                                          DoDependencyEdge(b, j) \o DoGroupEdges(b, owner, j))
                      bb == [b EXCEPT !.nodes[item] = [Node EXCEPT !.job = j],
                                      !.m_nextNodeIndex = @ + 1,
                                      !.m_allJobs = Append(@, j),
                                      !.m_dependency = 0,
                                      !.m_last = item]
                  IN /\ dependants' = st.dependants
                     /\ deps' = st.deps
                     /\ b' = bb
                     /\ th' = MainAfterOp(bb)
               /\ opJob' = Append(opJob, j)
               /\ UNCHANGED <<cancel, cancelInQueue>>
          ELSE Fail(b)

\* JobChainBuilder::Together
Together ==
    /\ BuildStep("Together")
    /\ LET item == AllocNode(b)
           j == nJobs + 1
       IN IF item # 0
          THEN /\ AddJobGuard
               /\ queue' = PushJob(AddJobTarget, j)
               /\ rr' = AddJobNextIndex
               /\ nJobs' = j
               /\ LET bb == [b EXCEPT !.nodes[item] =
                                          [isGroup |-> TRUE,
                                           groupDependency |-> TogetherGroupDependency(b),
                                           job |-> j],
                                      !.m_nextNodeIndex = @ + 1,
                                      !.m_allJobs = Append(@, j),
                                      !.m_last = item,
                                      !.m_dependency = 0,
                                      !.m_stack = Append(@, item)]
                  IN /\ b' = bb
                     /\ th' = MainAfterOp(bb)
               /\ opJob' = Append(opJob, j)
               /\ UNCHANGED <<cancel, cancelInQueue, deps, dependants>>
          ELSE Fail(b)

\* JobChainBuilder::Then
Then ==
    /\ BuildStep("Then")
    /\ LET bb == [b EXCEPT !.m_dependency = b.m_last,
                           !.m_last = IF b.m_last # 0
                                      THEN b.nodes[b.m_last].groupDependency ELSE 0]
       IN /\ b' = bb
          /\ th' = MainAfterOp(bb)
    /\ opJob' = Append(opJob, 0)
    /\ UNCHANGED <<queue, rr, nJobs, cancel, cancelInQueue, deps, dependants>>

\* JobChainBuilder::Close
Close ==
    /\ BuildStep("Close")
    /\ LET bb == [b EXCEPT !.m_last = CloseLast(b),
                           !.m_dependency = 0,
                           !.m_stack = IF Len(@) > 1 THEN SubSeq(@, 1, Len(@) - 1) ELSE @]
       IN /\ b' = bb
          /\ th' = MainAfterOp(bb)
    /\ opJob' = Append(opJob, 0)
    /\ UNCHANGED <<queue, rr, nJobs, cancel, cancelInQueue, deps, dependants>>

\* JobChainBuilder::Go, one iteration: JobState::SetReady stores m_ready ...
GoSetReady ==
    /\ ~crashed
    /\ th[Main].pc = "go_set"
    /\ ready' = [ready EXCEPT ![b.m_allJobs[goIdx]] = TRUE]
    /\ th' = [th EXCEPT ![Main].pc = "go_notify"]
    /\ UNCHANGED <<nWorkers, queue, qlock, signalLock, rr, nJobs, done, cancel, deps,
                   dependants, asst, bldVars, crashed, started, finished,
                   setDoneCalls, cancelErased, cancelInQueue, nCancels, stopVars>>

\* ... and then notifies all of s_signalThreads.
GoNotify ==
    /\ ~crashed
    /\ th[Main].pc = "go_notify"
    /\ goIdx' = goIdx + 1
    /\ th' = [NotifyAll(th) EXCEPT
                 ![Main].pc = IF goIdx < Len(b.m_allJobs) THEN "go_set" ELSE "m_idle"]
    /\ UNCHANGED <<nWorkers, queue, qlock, signalLock, rr, nJobs, jobVars, asst, b,
                   prog, ip, opJob, crashed, started, finished, setDoneCalls,
                   cancelErased, cancelInQueue, nCancels, stopVars>>

\* JobState::Cancel, called by user code on any job it holds a handle of.
Cancel(j) ==
    /\ ~crashed
    /\ j <= nJobs
    /\ ~cancel[j]
    /\ nCancels < MaxCancels
    /\ cancel' = [cancel EXCEPT ![j] = TRUE]
    /\ nCancels' = nCancels + 1
    /\ cancelInQueue' =
          [cancelInQueue EXCEPT ![j] =
              \E w \in 1..nWorkers : \E k \in 1..Len(queue[w]) : queue[w][k] = j]
    /\ UNCHANGED <<nWorkers, queue, qlock, signalLock, rr, nJobs, ready, done, deps,
                   dependants, th, asst, bldVars, crashed, started, finished,
                   setDoneCalls, cancelErased, stopVars>>

\* --------------------------------------------------------- JobSystemWorker
\* (Erase_Kept is the slip of leaving the taken entry in the queue.)
Erase_Kept(q, k) == q

\* std::deque::erase of the entry at position k.
Erase(q, k) == SubSeq(q, 1, k - 1) \o SubSeq(q, k + 1, Len(q))

\* PopNextJob returns `found` to its caller; rec and a are the thread's locals
\* and Main's assist locals at that moment.  The result names the thread's
\* locals, Main's assist locals and the holder of s_signalLock afterwards.
\*  - WorkerThreadProc: a job ends the wait loop and the unique_lock's scope;
\*    no job leads to s_signalThreads.wait.
\*  - AssistUntilDone: a job is run; no job moves on to the next worker of
\*    the for loop, or back to the while test after the last one.
\*  - AssistUntilJobDone: a job is run; no job sleeps and tests again.
PopResult(t, rec, a, found) ==
    LET out == [rec EXCEPT !.owner = 0, !.q = 0, !.i = 0, !.idx = 0, !.steal = FALSE]
    IN IF IsWorker(t)
       THEN [t |-> [out EXCEPT !.pc = IF found THEN "start" ELSE "w_wait"],
             a |-> a,
             s |-> IF found THEN NoLock ELSE signalLock]
       ELSE IF found
       THEN [t |-> [out EXCEPT !.pc = "start"], a |-> [a EXCEPT !.w = 0], s |-> signalLock]
       ELSE IF a.mode = "aud" /\ a.w < nWorkers
       THEN [t |-> [out EXCEPT !.pc = "pop_lock", !.owner = a.w + 1, !.q = a.w + 1],
             a |-> [a EXCEPT !.w = a.w + 1],
             s |-> signalLock]
       ELSE [t |-> [out EXCEPT !.pc = IF a.mode = "aud" THEN "aud_loop" ELSE "ajd_loop"],
             a |-> [a EXCEPT !.w = 0],
             s |-> signalLock]

\* PopNextJob after a scan of queue rec.q that took no job: the own queue is
\* followed, with work stealing, by the queues of m_allWorkers[0..m_workerCount).
AfterQueue(t, rec, a) ==
    IF rec.i = 0 /\ rec.steal /\ nWorkers > 0
    THEN [t |-> [rec EXCEPT !.pc = "pop_lock", !.i = 1, !.q = 1, !.idx = 0],
          a |-> a, s |-> signalLock]
    ELSE IF rec.i > 0 /\ rec.i < nWorkers
    THEN [t |-> [rec EXCEPT !.pc = "pop_lock", !.i = rec.i + 1, !.q = rec.i + 1, !.idx = 0],
          a |-> a, s |-> signalLock]
    ELSE PopResult(t, rec, a, FALSE)

\* The locals of a thread entering PopNextJob on worker w.
EnterPop(rec, w, useWorkStealing) ==
    [rec EXCEPT !.pc = "pop_lock", !.owner = w, !.q = w, !.i = 0, !.idx = 0,
                !.steal = useWorkStealing]

\* The locals of a thread entering SetDone on the state of job j.
EnterSetDone(rec, j, ret) ==
    [rec EXCEPT !.pc = "sd", !.sdJob = j, !.sdIdx = 1, !.sdRet = ret]

\* (ReleaseQueueLock_Kept is the slip of a lock that outlives its scope.)
ReleaseQueueLock_Kept(locks, q) == locks

\* PopNextJob: the std::lock_guard on worker q's m_queueLock goes out of scope.
ReleaseQueueLock(locks, q) == [locks EXCEPT ![q] = NoLock]

\* PopNextJob: std::lock_guard on the scanned worker's m_queueLock.  On an
\* empty queue the loop of PopJobFromQueue ends at once and the guard is
\* released.
PopLock(t) ==
    /\ ~crashed
    /\ th[t].pc = "pop_lock"
    /\ qlock[th[t].q] = NoLock
    /\ IF queue[th[t].q] = <<>>
       THEN LET r == AfterQueue(t, th[t], asst)
            IN /\ th' = [th EXCEPT ![t] = r.t]
               /\ asst' = r.a
               /\ signalLock' = r.s
               /\ UNCHANGED qlock
       ELSE /\ qlock' = [qlock EXCEPT ![th[t].q] = t]
            /\ th' = [th EXCEPT ![t].pc = "pop_scan", ![t].idx = 1]
            /\ UNCHANGED <<asst, signalLock>>
    /\ UNCHANGED <<nWorkers, queue, rr, nJobs, jobVars, bldVars, crashed, started,
                   finished, setDoneCalls, cancelErased, cancelInQueue, nCancels, stopVars>>

\* PopJobFromQueue, the candidate at jobIter: AwaitingCancellation() is false.
PopScanLive(t) ==
    /\ ~crashed
    /\ th[t].pc = "pop_scan"
    /\ ~AwaitingCancellation(queue[th[t].q][th[t].idx])
    /\ th' = [th EXCEPT ![t].pc = "pop_deps"]
    /\ UNCHANGED <<nWorkers, queue, qlock, signalLock, rr, nJobs, jobVars, asst,
                   bldVars, crashed, started, finished, setDoneCalls, cancelErased,
                   cancelInQueue, nCancels, stopVars>>

\* PopJobFromQueue, the candidate is awaiting cancellation and the caller's
\* `job` holds a state: job.m_state->SetDone() runs on THAT state.
PopScanCancelled(t) ==
    /\ ~crashed
    /\ th[t].pc = "pop_scan"
    /\ AwaitingCancellation(queue[th[t].q][th[t].idx])
    /\ th[t].job # 0
    /\ th' = [th EXCEPT ![t] = EnterSetDone(@, th[t].job, "pop_erase")]
    /\ setDoneCalls' = [setDoneCalls EXCEPT ![th[t].job] = @ + 1]
    /\ UNCHANGED <<nWorkers, queue, qlock, signalLock, rr, nJobs, jobVars, asst,
                   bldVars, crashed, started, finished, cancelErased, cancelInQueue,
                   nCancels, stopVars>>

\* PopJobFromQueue, the candidate is awaiting cancellation and the caller's
\* `job` is a fresh JobQueueEntry: job.m_state is a null shared_ptr and
\* SetDone() is called through it.  Undefined behaviour: the process dies on
\* the access, or the call has no effect and the scan goes on to the erase.
PopScanCancelledNull(t) ==
    /\ ~crashed
    /\ th[t].pc = "pop_scan"
    /\ AwaitingCancellation(queue[th[t].q][th[t].idx])
    /\ th[t].job = 0
    /\ \/ /\ crashed' = TRUE
          /\ UNCHANGED th
       \/ /\ th' = [th EXCEPT ![t].pc = "pop_erase"]
          /\ UNCHANGED crashed
    /\ UNCHANGED <<nWorkers, queue, qlock, signalLock, rr, nJobs, jobVars, asst,
                   bldVars, started, finished, setDoneCalls, cancelErased,
                   cancelInQueue, nCancels, stopVars>>

\* PopJobFromQueue, cancel branch: jobIter = queue.erase( jobIter ).
PopErase(t) ==
    /\ ~crashed
    /\ th[t].pc = "pop_erase"
    /\ LET q == th[t].q
           k == th[t].idx
       IN /\ queue' = [queue EXCEPT ![q] = Erase(@, k)]
          /\ cancelErased' = [cancelErased EXCEPT ![queue[q][k]] = TRUE]
          /\ IF k > Len(queue[q]) - 1
             THEN LET r == AfterQueue(t, th[t], asst)
                  IN /\ th' = [th EXCEPT ![t] = r.t]
                     /\ asst' = r.a
                     /\ signalLock' = r.s
                     /\ qlock' = ReleaseQueueLock(qlock, q)
             ELSE /\ th' = [th EXCEPT ![t].pc = "pop_scan"]
                  /\ UNCHANGED <<asst, signalLock, qlock>>
    /\ UNCHANGED <<nWorkers, rr, nJobs, jobVars, bldVars, crashed, started, finished,
                   setDoneCalls, cancelInQueue, nCancels, stopVars>>

\* (HasUnsatisfiedDependencies_Unset is the slip of not reporting the entry.)
HasUnsatisfiedDependencies_Unset(t, a) == a

\* PopJobFromQueue: hasUnsatisfiedDependencies = true.  The reference is
\* AssistUntilDone's foundBusyWorker when that is the caller, and a local
\* nobody reads in WorkerThreadProc and AssistUntilJobDone.
HasUnsatisfiedDependencies(t, a) ==
    IF t = Main /\ a.mode = "aud" THEN [a EXCEPT !.foundBusy = TRUE] ELSE a

\* PopJobFromQueue, the candidate is not awaiting cancellation: it is taken
\* if AreDependenciesMet(), else hasUnsatisfiedDependencies is set (that is
\* foundBusyWorker when AssistUntilDone is the caller) and the scan moves on.
PopDeps(t) ==
    /\ ~crashed
    /\ th[t].pc = "pop_deps"
    /\ LET q == th[t].q
           k == th[t].idx
           cand == queue[q][k]
       IN IF AreDependenciesMet(cand)
          THEN LET r == PopResult(t, [th[t] EXCEPT !.job = cand], asst, TRUE)
               IN /\ queue' = [queue EXCEPT ![q] = Erase(@, k)]
                  /\ qlock' = ReleaseQueueLock(qlock, q)
                  /\ th' = [th EXCEPT ![t] = r.t]
                  /\ asst' = r.a
                  /\ signalLock' = r.s
          ELSE LET a == HasUnsatisfiedDependencies(t, asst)
               IN /\ UNCHANGED queue
                  /\ IF k + 1 > Len(queue[q])
                     THEN LET r == AfterQueue(t, th[t], a)
                          IN /\ th' = [th EXCEPT ![t] = r.t]
                             /\ asst' = r.a
                             /\ signalLock' = r.s
                             /\ qlock' = ReleaseQueueLock(qlock, q)
                     ELSE /\ th' = [th EXCEPT ![t].pc = "pop_scan", ![t].idx = k + 1]
                          /\ asst' = a
                          /\ UNCHANGED <<signalLock, qlock>>
    /\ UNCHANGED <<nWorkers, rr, nJobs, jobVars, bldVars, crashed, started, finished,
                   setDoneCalls, cancelErased, cancelInQueue, nCancels, stopVars>>

\* JobState::SetDone, one iteration of the loop over m_dependants:
\* dependant->m_dependencies.fetch_add( -1 ).
SetDoneDecrement(t) ==
    /\ ~crashed
    /\ th[t].pc = "sd"
    /\ th[t].sdIdx <= Len(dependants[th[t].sdJob])
    /\ deps' = [deps EXCEPT ![dependants[th[t].sdJob][th[t].sdIdx]] = @ - 1]
    /\ th' = [th EXCEPT ![t].sdIdx = @ + 1]
    /\ UNCHANGED <<nWorkers, queue, qlock, signalLock, rr, nJobs, ready, done, cancel,
                   dependants, asst, bldVars, crashed, started, finished, setDoneCalls,
                   cancelErased, cancelInQueue, nCancels, stopVars>>

\* JobState::SetDone, after the loop: m_done.store( true ).
SetDoneStore(t) ==
    /\ ~crashed
    /\ th[t].pc = "sd"
    /\ th[t].sdIdx > Len(dependants[th[t].sdJob])
    /\ done' = [done EXCEPT ![th[t].sdJob] = TRUE]
    /\ th' = [th EXCEPT ![t].pc = th[t].sdRet, ![t].sdJob = 0, ![t].sdIdx = 0,
                        ![t].sdRet = "none"]
    /\ UNCHANGED <<nWorkers, queue, qlock, signalLock, rr, nJobs, ready, cancel, deps,
                   dependants, asst, bldVars, crashed, started, finished, setDoneCalls,
                   cancelErased, cancelInQueue, nCancels, stopVars>>

\* WorkerThreadProc: s_signalLock is taken, by the std::unique_lock at the
\* top of the loop or on the way out of s_signalThreads.wait, and the wait
\* loop's test loads m_stop and then calls PopNextJob on the worker itself.
WorkerLockSignal(w) ==
    /\ ~crashed
    /\ IsWorker(w)
    /\ th[w].pc = "w_lockSignal"
    /\ signalLock = NoLock
    /\ IF m_stop[w]
       THEN \* the wait loop ends on m_stop and the lock's scope with it
            /\ th' = [th EXCEPT ![w].pc = "start"]
            /\ UNCHANGED signalLock
       ELSE /\ signalLock' = w
            /\ th' = [th EXCEPT ![w] = EnterPop(@, w, m_enableWorkStealing[w])]
    /\ UNCHANGED <<nWorkers, queue, qlock, rr, nJobs, jobVars, asst, bldVars, crashed,
                   started, finished, setDoneCalls, cancelErased, cancelInQueue,
                   nCancels, stopVars>>

\* WorkerThreadProc: s_signalThreads.wait( signalLock ) releases the lock and
\* blocks.
WorkerWait(w) ==
    /\ ~crashed
    /\ IsWorker(w)
    /\ th[w].pc = "w_wait"
    /\ signalLock' = NoLock
    /\ th' = [th EXCEPT ![w].pc = "w_waiting"]
    /\ UNCHANGED <<nWorkers, queue, qlock, rr, nJobs, jobVars, asst, bldVars, crashed,
                   started, finished, setDoneCalls, cancelErased, cancelInQueue,
                   nCancels, stopVars>>

\* std::condition_variable::wait may return without a notification.
SpuriousWake(w) ==
    /\ ~crashed
    /\ IsWorker(w)
    /\ th[w].pc = "w_waiting"
    /\ th' = [th EXCEPT ![w].pc = "w_lockSignal"]
    /\ UNCHANGED <<nWorkers, queue, qlock, signalLock, rr, nJobs, jobVars, asst,
                   bldVars, crashed, started, finished, setDoneCalls, cancelErased,
                   cancelInQueue, nCancels, stopVars>>

\* WorkerThreadProc after the wait loop: m_stop is set, so m_hasShutDown is
\* stored and the thread leaves its loop; `job`, whatever it holds, goes out
\* of scope.
WorkerStop(w) ==
    /\ ~crashed
    /\ IsWorker(w)
    /\ th[w].pc = "start"
    /\ m_stop[w]
    /\ m_hasShutDown' = [m_hasShutDown EXCEPT ![w] = TRUE]
    /\ th' = [th EXCEPT ![w].pc = "exited"]
    /\ UNCHANGED <<nWorkers, queue, qlock, signalLock, rr, nJobs, jobVars, asst,
                   bldVars, crashed, started, finished, setDoneCalls, cancelErased,
                   cancelInQueue, nCancels, m_stop, finishJobs, m_enableWorkStealing>>

\* job.m_delegate() is entered, by a worker that has found m_stop false
\* after its wait loop, or by an assisting Main.
StartJob(t) ==
    /\ ~crashed
    /\ th[t].pc = "start"
    /\ IsWorker(t) => ~m_stop[t]
    /\ started' = [started EXCEPT ![th[t].job] = TRUE]
    /\ th' = [th EXCEPT ![t].pc = "run"]
    /\ UNCHANGED <<nWorkers, queue, qlock, signalLock, rr, nJobs, jobVars, asst,
                   bldVars, crashed, finished, setDoneCalls, cancelErased,
                   cancelInQueue, nCancels, stopVars>>

\* job.m_delegate() returns and job.m_state->SetDone() is entered.
FinishJob(t) ==
    /\ ~crashed
    /\ th[t].pc = "run"
    /\ finished' = [finished EXCEPT ![th[t].job] = TRUE]
    /\ setDoneCalls' = [setDoneCalls EXCEPT ![th[t].job] = @ + 1]
    /\ th' = [th EXCEPT ![t] = EnterSetDone(@, th[t].job, "notify")]
    /\ UNCHANGED <<nWorkers, queue, qlock, signalLock, rr, nJobs, jobVars, asst,
                   bldVars, crashed, started, cancelErased, cancelInQueue, nCancels, stopVars>>

\* s_signalThreads.notify_one() after a job: one waiting thread, if there is
\* one, is released.  The worker loops; AssistUntilDone sets foundBusyWorker
\* and breaks out of its for loop; AssistUntilJobDone tests its target again.
NotifyOne(t) ==
    /\ ~crashed
    /\ th[t].pc = "notify"
    /\ LET next == IF IsWorker(t) THEN "w_lockSignal"
                   ELSE IF asst.mode = "aud" THEN "aud_loop" ELSE "ajd_loop"
           \* `job` lives on across iterations in AssistUntilDone alone
           kept == IF t = Main /\ asst.mode = "aud" THEN th[t].job ELSE 0
       IN \/ /\ Waiting(th) = {}
             /\ th' = [th EXCEPT ![t].pc = next, ![t].job = kept]
          \/ \E u \in Waiting(th) :
                th' = [th EXCEPT ![t].pc = next, ![t].job = kept, ![u].pc = "w_lockSignal"]
    /\ asst' = IF t = Main /\ asst.mode = "aud"
               THEN [asst EXCEPT !.foundBusy = TRUE] ELSE asst
    /\ UNCHANGED <<nWorkers, queue, qlock, signalLock, rr, nJobs, jobVars, bldVars,
                   crashed, started, finished, setDoneCalls, cancelErased,
                   cancelInQueue, nCancels, stopVars>>

\* ------------------------------------------------------------- JobManager
NoAssist == [mode |-> "none", target |-> 0, foundBusy |-> FALSE, w |-> 0]

\* JobManager::AssistUntilDone is called: JobQueueEntry job; foundBusyWorker = true.
AssistUntilDone ==
    /\ ~crashed
    /\ th[Main].pc = "m_idle"
    /\ asst' = [mode |-> "aud", target |-> 0, foundBusy |-> TRUE, w |-> 0]
    /\ th' = [th EXCEPT ![Main] = IdleThread("aud_loop")]
    /\ UNCHANGED <<nWorkers, queue, qlock, signalLock, rr, nJobs, jobVars, bldVars,
                   crashed, started, finished, setDoneCalls, cancelErased,
                   cancelInQueue, nCancels, stopVars>>

\* AssistUntilDone: while( foundBusyWorker ): the flag is cleared and the for
\* loop calls PopNextJob( job, foundBusyWorker, false ) on the first worker;
\* with the flag clear the call returns.
AssistUntilDoneLoop ==
    /\ ~crashed
    /\ th[Main].pc = "aud_loop"
    /\ IF asst.foundBusy
       THEN /\ asst' = [asst EXCEPT !.foundBusy = FALSE, !.w = 1]
            /\ th' = [th EXCEPT ![Main] = EnterPop(@, 1, FALSE)]
       ELSE IF finishJobs
       THEN \* back in JobManager::Shutdown, at its loop over m_workers
            /\ asst' = [NoAssist EXCEPT !.mode = "shutdown", !.w = 1]
            /\ th' = [th EXCEPT ![Main] = IdleThread("sd_stop")]
       ELSE /\ asst' = NoAssist
            /\ th' = [th EXCEPT ![Main] = IdleThread("m_idle")]
    /\ UNCHANGED <<nWorkers, queue, qlock, signalLock, rr, nJobs, jobVars, bldVars,
                   crashed, started, finished, setDoneCalls, cancelErased,
                   cancelInQueue, nCancels, stopVars>>

\* JobManager::Shutdown( finishJobs ) is called: AssistUntilDone() first if
\* finishJobs, else straight to the loop that shuts each worker down.
Shutdown(fj) ==
    /\ ~crashed
    /\ th[Main].pc = "m_idle"
    /\ finishJobs' = fj
    /\ IF fj
       THEN /\ asst' = [mode |-> "aud", target |-> 0, foundBusy |-> TRUE, w |-> 0]
            /\ th' = [th EXCEPT ![Main] = IdleThread("aud_loop")]
       ELSE /\ asst' = [NoAssist EXCEPT !.mode = "shutdown", !.w = 1]
            /\ th' = [th EXCEPT ![Main] = IdleThread("sd_stop")]
    /\ UNCHANGED <<nWorkers, queue, qlock, signalLock, rr, nJobs, jobVars, bldVars,
                   crashed, started, finished, setDoneCalls, cancelErased,
                   cancelInQueue, nCancels, m_stop, m_hasShutDown, m_enableWorkStealing>>

\* JobSystemWorker::Shutdown on worker asst.w: m_stop.store( true ).
ShutdownStop ==
    /\ ~crashed
    /\ th[Main].pc = "sd_stop"
    /\ m_stop' = [m_stop EXCEPT ![asst.w] = TRUE]
    /\ th' = [th EXCEPT ![Main].pc = "sd_poll"]
    /\ UNCHANGED <<nWorkers, queue, qlock, signalLock, rr, nJobs, jobVars, asst,
                   bldVars, crashed, started, finished, setDoneCalls, cancelErased,
                   cancelInQueue, nCancels, m_hasShutDown, finishJobs,
                   m_enableWorkStealing>>

\* (HasShutDown_Assumed is the slip of not waiting for the acknowledgement.)
HasShutDown_Assumed(w) == TRUE

\* JobSystemWorker::Shutdown: m_hasShutDown.load( acquire ).
HasShutDown(w) == m_hasShutDown[w]

\* JobSystemWorker::Shutdown: while m_hasShutDown is false, notify_all and
\* sleep; once it is true the thread is joined and JobManager::Shutdown goes
\* on to the next worker; after the last one it deletes every worker, clears
\* m_workers and returns.
ShutdownPoll ==
    /\ ~crashed
    /\ th[Main].pc = "sd_poll"
    /\ IF ~HasShutDown(asst.w)
       THEN /\ th' = NotifyAll(th)
            /\ UNCHANGED asst
       ELSE IF asst.w < nWorkers
       THEN /\ asst' = [asst EXCEPT !.w = @ + 1]
            /\ th' = [th EXCEPT ![Main].pc = "sd_stop"]
       ELSE /\ asst' = NoAssist
            /\ th' = [th EXCEPT ![Main].pc = "m_down"]
    /\ UNCHANGED <<nWorkers, queue, qlock, signalLock, rr, nJobs, jobVars, bldVars,
                   crashed, started, finished, setDoneCalls, cancelErased,
                   cancelInQueue, nCancels, stopVars>>

\* JobManager::AssistUntilJobDone( state ) is called on a ready state.
AssistUntilJobDone(j) ==
    /\ ~crashed
    /\ th[Main].pc = "m_idle"
    /\ j <= nJobs
    /\ ready[j]
    /\ asst' = [mode |-> "ajd", target |-> j, foundBusy |-> FALSE, w |-> 0]
    /\ th' = [th EXCEPT ![Main] = IdleThread("ajd_loop")]
    /\ UNCHANGED <<nWorkers, queue, qlock, signalLock, rr, nJobs, jobVars, bldVars,
                   crashed, started, finished, setDoneCalls, cancelErased,
                   cancelInQueue, nCancels, stopVars>>

\* AssistUntilJobDone: while( !state->IsDone() ): a fresh JobQueueEntry and
\* m_workers[0]->PopNextJob( job, hasUnsatisfiedDependencies, true ).
AssistUntilJobDoneLoop ==
    /\ ~crashed
    /\ th[Main].pc = "ajd_loop"
    /\ IF IsDone(asst.target)
       THEN /\ asst' = NoAssist
            /\ th' = [th EXCEPT ![Main] = IdleThread("m_idle")]
       ELSE /\ th' = [th EXCEPT ![Main] = EnterPop(@, 1, TRUE)]
            /\ UNCHANGED asst
    /\ UNCHANGED <<nWorkers, queue, qlock, signalLock, rr, nJobs, jobVars, bldVars,
                   crashed, started, finished, setDoneCalls, cancelErased,
                   cancelInQueue, nCancels, stopVars>>

\* JobManager::AddJob with m_nextRoundRobinWorkerIndex >= m_workers.size():
\* m_workers[ index ] is an access past the end of the vector.  Undefined
\* behaviour: the process dies on it, or the call goes through on memory
\* that is no worker of the manager: a state is made and returned, no
\* worker's queue receives an entry, and the index moves on.
AddJobOutOfRange ==
    /\ ~crashed
    /\ th[Main].pc = "m_build"
    /\ ip < Len(prog)
    /\ prog[ip + 1] = "AddJob"
    /\ rr >= nWorkers
    /\ \/ /\ crashed' = TRUE
          /\ UNCHANGED <<rr, nJobs, th, ip, opJob>>
       \/ /\ rr' = AddJobNextIndex
          /\ nJobs' = nJobs + 1
          /\ ip' = ip + 1
          /\ opJob' = Append(opJob, nJobs + 1)
          /\ th' = MainAfterOp(b)
          /\ UNCHANGED crashed
    /\ UNCHANGED <<nWorkers, queue, qlock, signalLock, jobVars, asst, b, prog, goIdx,
                   started, finished, setDoneCalls, cancelErased, cancelInQueue,
                   nCancels, stopVars>>

\* The AddJob calls the user makes on a manager just created, at most as
\* many as there are job states left.
AddJobPrograms(n) == {Rep("AddJob", k) : k \in 0..n}

\* JobManager::Create( desc ) with n workers on a manager that was shut
\* down: its own Shutdown() finds m_workers empty; n workers are made, with
\* empty queues, and their threads started.  m_nextRoundRobinWorkerIndex is
\* not assigned.
Create(n) ==
    /\ ~crashed
    /\ th[Main].pc = "m_down"
    /\ nWorkers' = n
    /\ queue' = [w \in 1..MaxWorkers |-> <<>>]
    /\ qlock' = [w \in 1..MaxWorkers |-> NoLock]
    /\ m_stop' = [w \in 1..MaxWorkers |-> FALSE]
    /\ m_hasShutDown' = [w \in 1..MaxWorkers |-> FALSE]
    /\ finishJobs' = FALSE
    /\ prog' \in AddJobPrograms(MaxJobs - nJobs)
    /\ ip' = 0
    /\ opJob' = <<>>
    /\ asst' = NoAssist
    /\ th' = [t \in ThreadIds |->
                 IF t = Main THEN IdleThread(IF prog' = <<>> THEN "m_idle" ELSE "m_build")
                 ELSE IF t <= n THEN IdleThread("w_lockSignal")
                 ELSE IdleThread("none")]
    /\ UNCHANGED <<signalLock, rr, nJobs, jobVars, b, goIdx, crashed, started, finished,
                   setDoneCalls, cancelErased, cancelInQueue, nCancels,
                   m_enableWorkStealing>>

\* ------------------------------------------------------------ the system
\* JobManager::Create with 1..MaxWorkers workers, each thread at the top of
\* WorkerThreadProc; a JobChainBuilder just constructed on the user thread.
\* JobManager::Create with 1..MaxWorkers workers whose descriptors all have
\* m_enableWorkStealing = stealing, and a builder about to issue one of programs.
InitDesc(programs, stealing) ==
    /\ nWorkers \in 1..MaxWorkers
    /\ queue = [w \in 1..MaxWorkers |-> <<>>]
    /\ qlock = [w \in 1..MaxWorkers |-> NoLock]
    /\ signalLock = NoLock
    /\ rr = 0
    /\ nJobs = 0
    /\ ready = [j \in JobIds |-> FALSE]
    /\ done = [j \in JobIds |-> FALSE]
    /\ cancel = [j \in JobIds |-> FALSE]
    /\ deps = [j \in JobIds |-> 0]
    /\ dependants = [j \in JobIds |-> <<>>]
    /\ th = [t \in ThreadIds |->
               IF t = Main THEN IdleThread("m_build")
               ELSE IF t <= nWorkers THEN IdleThread("w_lockSignal")
               ELSE IdleThread("none")]
    /\ asst = NoAssist
    /\ b = NewBuilder
    /\ prog \in programs
    /\ ip = 0
    /\ goIdx = 1
    /\ crashed = FALSE
    /\ opJob = <<>>
    /\ started = [j \in JobIds |-> FALSE]
    /\ finished = [j \in JobIds |-> FALSE]
    /\ setDoneCalls = [j \in JobIds |-> 0]
    /\ cancelErased = [j \in JobIds |-> FALSE]
    /\ cancelInQueue = [j \in JobIds |-> FALSE]
    /\ nCancels = 0
    /\ m_stop = [w \in 1..MaxWorkers |-> FALSE]
    /\ m_hasShutDown = [w \in 1..MaxWorkers |-> FALSE]
    /\ finishJobs = FALSE
    /\ m_enableWorkStealing = [w \in 1..MaxWorkers |-> stealing]

\* JobWorkerDescriptor's constructor sets m_enableWorkStealing( true ).
InitWith(programs) == InitDesc(programs, TRUE)

Init == InitWith(Programs)

Next ==
    \/ AddJob
    \/ Do
    \/ Together
    \/ Then
    \/ Close
    \/ GoSetReady
    \/ GoNotify
    \/ \E j \in JobIds : Cancel(j)
    \/ AssistUntilDone
    \/ AssistUntilDoneLoop
    \/ \E j \in JobIds : AssistUntilJobDone(j)
    \/ AssistUntilJobDoneLoop
    \/ \E t \in ThreadIds : PopLock(t)
    \/ \E t \in ThreadIds : PopScanLive(t)
    \/ \E t \in ThreadIds : PopScanCancelled(t)
    \/ \E t \in ThreadIds : PopScanCancelledNull(t)
    \/ \E t \in ThreadIds : PopErase(t)
    \/ \E t \in ThreadIds : PopDeps(t)
    \/ \E t \in ThreadIds : SetDoneDecrement(t)
    \/ \E t \in ThreadIds : SetDoneStore(t)
    \/ \E w \in 1..MaxWorkers : WorkerLockSignal(w)
    \/ \E w \in 1..MaxWorkers : WorkerWait(w)
    \/ \E w \in 1..MaxWorkers : SpuriousWake(w)
    \/ \E t \in ThreadIds : StartJob(t)
    \/ \E t \in ThreadIds : FinishJob(t)
    \/ \E t \in ThreadIds : NotifyOne(t)

Spec == Init /\ [][Next]_vars

\* Runs in which no job is ever cancelled: the builder program orders its
\* jobs with Then() and stays within the node pool, no user code calls
\* Cancel(), and so no scan ever takes the cancel branch of PopJobFromQueue.
InitNoCancel ==
    /\ Init
    /\ prog \in OrderedPrograms

NextNoCancel ==
    \/ Do
    \/ Together
    \/ Then
    \/ Close
    \/ GoSetReady
    \/ GoNotify
    \/ AssistUntilDone
    \/ AssistUntilDoneLoop
    \/ \E j \in JobIds : AssistUntilJobDone(j)
    \/ AssistUntilJobDoneLoop
    \/ \E t \in ThreadIds : PopLock(t)
    \/ \E t \in ThreadIds : PopScanLive(t)
    \/ \E t \in ThreadIds : PopDeps(t)
    \/ \E t \in ThreadIds : SetDoneDecrement(t)
    \/ \E t \in ThreadIds : SetDoneStore(t)
    \/ \E w \in 1..MaxWorkers : WorkerLockSignal(w)
    \/ \E w \in 1..MaxWorkers : WorkerWait(w)
    \/ \E w \in 1..MaxWorkers : SpuriousWake(w)
    \/ \E t \in ThreadIds : StartJob(t)
    \/ \E t \in ThreadIds : FinishJob(t)
    \/ \E t \in ThreadIds : NotifyOne(t)

SpecNoCancel == InitNoCancel /\ [][NextNoCancel]_vars

\* The worker threads alone: the user thread builds an ordered graph and
\* releases it with Go(), and calls nothing afterwards.  Liveness is asked of
\* runs in which the user thread goes on while it has a call to make, and
\* each worker thread goes on whenever a step of its own is possible again
\* and again (a thread blocked on a mutex gets it in the end).  A return of
\* condition_variable::wait that nobody notified is possible but never owed.
BuildAndGo == Do \/ Together \/ Then \/ Close \/ GoSetReady \/ GoNotify

WorkerStep(w) ==
    \/ WorkerLockSignal(w)
    \/ PopLock(w)
    \/ PopScanLive(w)
    \/ PopDeps(w)
    \/ WorkerWait(w)
    \/ StartJob(w)
    \/ FinishJob(w)
    \/ SetDoneDecrement(w)
    \/ SetDoneStore(w)
    \/ NotifyOne(w)

NextWorkers ==
    \/ Do
    \/ Together
    \/ Then
    \/ Close
    \/ GoSetReady
    \/ GoNotify
    \/ \E t \in ThreadIds : PopLock(t)
    \/ \E t \in ThreadIds : PopScanLive(t)
    \/ \E t \in ThreadIds : PopDeps(t)
    \/ \E t \in ThreadIds : SetDoneDecrement(t)
    \/ \E t \in ThreadIds : SetDoneStore(t)
    \/ \E w \in 1..MaxWorkers : WorkerLockSignal(w)
    \/ \E w \in 1..MaxWorkers : WorkerWait(w)
    \/ \E w \in 1..MaxWorkers : SpuriousWake(w)
    \/ \E t \in ThreadIds : StartJob(t)
    \/ \E t \in ThreadIds : FinishJob(t)
    \/ \E t \in ThreadIds : NotifyOne(t)

SpecWorkers ==
    /\ InitNoCancel
    /\ [][NextWorkers]_vars
    /\ SF_vars(BuildAndGo)
    /\ \A w \in 1..MaxWorkers : SF_vars(WorkerStep(w))

\* The user thread builds a graph, or adds a job it never marks ready, and
\* then assists with AssistUntilDone() or shuts the manager down; nobody
\* cancels.  The same fairness as above, for the user thread too.
InitAssist ==
    /\ Init
    /\ prog \in OrderedPrograms \cup Unreadied

UserStep ==
    \/ AddJob
    \/ BuildAndGo
    \/ AssistUntilDone
    \/ AssistUntilDoneLoop
    \/ \E fj \in BOOLEAN : Shutdown(fj)
    \/ ShutdownStop
    \/ ShutdownPoll
    \/ PopLock(Main)
    \/ PopScanLive(Main)
    \/ PopDeps(Main)
    \/ StartJob(Main)
    \/ FinishJob(Main)
    \/ SetDoneDecrement(Main)
    \/ SetDoneStore(Main)
    \/ NotifyOne(Main)

NextAssist ==
    \/ AddJob
    \/ Do
    \/ Together
    \/ Then
    \/ Close
    \/ GoSetReady
    \/ GoNotify
    \/ AssistUntilDone
    \/ AssistUntilDoneLoop
    \/ \E fj \in BOOLEAN : Shutdown(fj)
    \/ ShutdownStop
    \/ ShutdownPoll
    \/ \E t \in ThreadIds : PopLock(t)
    \/ \E t \in ThreadIds : PopScanLive(t)
    \/ \E t \in ThreadIds : PopDeps(t)
    \/ \E t \in ThreadIds : SetDoneDecrement(t)
    \/ \E t \in ThreadIds : SetDoneStore(t)
    \/ \E w \in 1..MaxWorkers : WorkerLockSignal(w)
    \/ \E w \in 1..MaxWorkers : WorkerWait(w)
    \/ \E w \in 1..MaxWorkers : SpuriousWake(w)
    \/ \E w \in 1..MaxWorkers : WorkerStop(w)
    \/ \E t \in ThreadIds : StartJob(t)
    \/ \E t \in ThreadIds : FinishJob(t)
    \/ \E t \in ThreadIds : NotifyOne(t)

SpecAssist ==
    /\ InitAssist
    /\ [][NextAssist]_vars
    /\ SF_vars(UserStep)
    /\ \A w \in 1..MaxWorkers : SF_vars(WorkerStep(w) \/ WorkerStop(w))

\* The user thread builds a chain of two jobs, or adds a job it never marks
\* ready, and then calls JobManager::Shutdown, whatever the worker threads
\* are doing at that moment.
InitShutdown ==
    /\ Init
    /\ prog \in {Chain(2)} \cup Unreadied

NextShutdown ==
    \/ AddJob
    \/ Do
    \/ Then
    \/ GoSetReady
    \/ GoNotify
    \/ AssistUntilDoneLoop
    \/ \E fj \in BOOLEAN : Shutdown(fj)
    \/ ShutdownStop
    \/ ShutdownPoll
    \/ \E t \in ThreadIds : PopLock(t)
    \/ \E t \in ThreadIds : PopScanLive(t)
    \/ \E t \in ThreadIds : PopDeps(t)
    \/ \E t \in ThreadIds : SetDoneDecrement(t)
    \/ \E t \in ThreadIds : SetDoneStore(t)
    \/ \E w \in 1..MaxWorkers : WorkerLockSignal(w)
    \/ \E w \in 1..MaxWorkers : WorkerWait(w)
    \/ \E w \in 1..MaxWorkers : SpuriousWake(w)
    \/ \E w \in 1..MaxWorkers : WorkerStop(w)
    \/ \E t \in ThreadIds : StartJob(t)
    \/ \E t \in ThreadIds : FinishJob(t)
    \/ \E t \in ThreadIds : NotifyOne(t)

SpecShutdown ==
    /\ InitShutdown
    /\ [][NextShutdown]_vars
    /\ SF_vars(UserStep)
    /\ \A w \in 1..MaxWorkers : SF_vars(WorkerStep(w) \/ WorkerStop(w))

\* The life of one JobManager: Create, AddJob calls, Shutdown, and Create
\* again with any number of workers, the worker threads running all along.
\* The jobs are never marked ready.
InitCreate == InitWith(AddJobPrograms(MaxJobs) \ {<<>>})

NextCreate ==
    \/ AddJob
    \/ AddJobOutOfRange
    \/ Shutdown(FALSE)
    \/ ShutdownStop
    \/ ShutdownPoll
    \/ \E n \in 1..MaxWorkers : Create(n)
    \/ \E t \in ThreadIds : PopLock(t)
    \/ \E t \in ThreadIds : PopScanLive(t)
    \/ \E t \in ThreadIds : PopDeps(t)
    \/ \E w \in 1..MaxWorkers : WorkerLockSignal(w)
    \/ \E w \in 1..MaxWorkers : WorkerWait(w)
    \/ \E w \in 1..MaxWorkers : SpuriousWake(w)
    \/ \E w \in 1..MaxWorkers : WorkerStop(w)

SpecCreate == InitCreate /\ [][NextCreate]_vars

\* ------------------------------------------------------------- properties
\* The calls Do().Then().Do() were issued at positions i..i+2 of the program.
ChainAt(i) ==
    /\ i + 2 <= ip
    /\ prog[i] = "Do" /\ prog[i + 1] = "Then" /\ prog[i + 2] = "Do"

\* Together().Do()...Do().Close().Then().Do(), with k members, was issued
\* at positions i..i+k+3.
GroupAt(i, k) ==
    /\ i + k + 3 <= ip
    /\ prog[i] = "Together"
    /\ \A m \in 1..k : prog[i + m] = "Do"
    /\ prog[i + k + 1] = "Close" /\ prog[i + k + 2] = "Then" /\ prog[i + k + 3] = "Do"

\* Do().Then().Together().Do()...Do().Close(), with k members, was issued at
\* positions i..i+k+3.
PredGroupAt(i, k) ==
    /\ i + k + 3 <= ip
    /\ prog[i] = "Do" /\ prog[i + 1] = "Then" /\ prog[i + 2] = "Together"
    /\ \A m \in 1..k : prog[i + 2 + m] = "Do"
    /\ prog[i + k + 3] = "Close"

\* The jobs p has been registered on as a predecessor.
DependantsOf(p) == {dependants[p][n] : n \in 1..Len(dependants[p])}

\* The jobs registered as predecessors of d.
PredecessorsOf(d) == {p \in JobIds : d \in DependantsOf(p)}

NoJobCancelled == \A j \in JobIds : ~cancel[j]

\* C1 (chain law): in a graph built as ... Do(A).Then().Do(B) ... and released
\* with Go(), as long as no job is cancelled, B's callable has begun only if
\* A's callable has returned.
C1_ChainLaw ==
    \A i \in 1..Len(prog) :
        (ChainAt(i) /\ NoJobCancelled)
            => (started[opJob[i + 2]] => finished[opJob[i]])

\* B of a chain has begun (and so A has returned).
C1_Witness ==
    /\ prog = Chain(2)
    /\ ip = Len(prog)
    /\ NoJobCancelled
    /\ started[opJob[3]]
    /\ finished[opJob[1]]
    /\ \E t \in 1..nWorkers : th[t].job = opJob[3] /\ th[t].pc = "run"

C4_DoneBeforeDependantStarts ==
    \A p \in JobIds : \A d \in DependantsOf(p) : started[d] => IsDone(p)

\* C5: a job on which Cancel() was called while its entry was still in a
\* queue never has its callable invoked.
C5_CancelledInQueueNeverRuns ==
    \A j \in JobIds : cancelInQueue[j] => ~started[j]

\* C6: in the chain A -> B -> C, once the cancelled B has been removed from
\* its queue, C has had its dependency counter decremented and is free to run.
C6_CancelledReleasesDependants ==
    (prog = Chain(3) /\ ip = Len(prog) /\ cancelErased[opJob[3]]) => deps[opJob[5]] = 0

\* C7: a scan that meets a cancelled entry does not fail, and the entry it
\* erases has its own state marked done.
C7_CancelledEntryMarkedDone ==
    /\ ~crashed
    /\ \A j \in JobIds : cancelErased[j] => IsDone(j)

\* C8: SetDone is never invoked twice on one state, and it has been invoked
\* once on the state of every entry erased as cancelled and of every job
\* whose execution was completed.
C8_SetDoneExactlyOnce ==
    \A j \in JobIds :
        /\ setDoneCalls[j] <= 1
        /\ cancelErased[j] => setDoneCalls[j] = 1
        /\ (finished[j] /\ IsDone(j)) => setDoneCalls[j] = 1

\* C9: no job's dependencies counter is negative.
C9_DependenciesNeverNegative ==
    \A j \in JobIds : deps[j] >= 0

\* The number of Do and Together calls issued so far.
JobCallsIssued == Cardinality({i \in 1..ip : prog[i] \in {"Do", "Together"}})

\* C10: a builder on which no more than MaxJobNodes jobs were added has not
\* failed.
C10_WithinCapacityNeverFails ==
    JobCallsIssued <= MaxJobNodes => ~b.m_failed

\* AssistUntilDone is at the test of while( foundBusyWorker ) with the flag
\* clear: the call returns from this state.
AssistUntilDoneReturns ==
    /\ asst.mode = "aud"
    /\ th[Main].pc = "aud_loop"
    /\ ~asst.foundBusy

\* C11: when an AssistUntilDone() call that follows Go() on a build that did
\* not fail returns, the callable of every job of the build has returned and
\* its done flag is true.
C11_AssistUntilDoneLeavesAllDone ==
    (AssistUntilDoneReturns /\ ~b.m_failed)
        => \A k \in 1..Len(b.m_allJobs) :
              finished[b.m_allJobs[k]] /\ IsDone(b.m_allJobs[k])

\* C12: when AssistUntilDone() returns, every worker's queue is empty.  (No
\* thread pushes a job while AssistUntilDone runs: the user thread is the
\* only one that adds jobs.)
C12_QueuesEmptyOnReturn ==
    AssistUntilDoneReturns => \A w \in 1..nWorkers : queue[w] = <<>>

\* AssistUntilDone returns after the user thread ran the last job of a
\* chain itself, the queues of two workers having held entries.
C12_Witness ==
    /\ AssistUntilDoneReturns
    /\ nWorkers = 2
    /\ prog = Chain(2)
    /\ th[Main].job = opJob[3]
    /\ finished[opJob[3]]

\* The Do and Together calls issued so far that made no job.
FailedOps == {i \in 1..ip : prog[i] \in {"Do", "Together"} /\ opJob[i] = 0}

\* C13 (builder exhaustion): Failed() is true from the first Do or Together
\* call that finds the node pool used up, and stays true; every job the
\* builder made is cancelled; no later call makes a job; and no callable of
\* a job of the builder has begun, Go() or not.
C13_BuilderExhaustion ==
    /\ b.m_failed <=> FailedOps # {}
    /\ FailedOps # {} => b.m_nextNodeIndex = MaxJobNodes
    /\ b.m_failed =>
          \A k \in 1..Len(b.m_allJobs) :
              cancel[b.m_allJobs[k]] /\ ~started[b.m_allJobs[k]]
    /\ \A i \in FailedOps : \A i2 \in i..ip : opJob[i2] = 0

\* C14: AssistUntilJobDone( target ) returns only from a state in which the
\* target's m_done is true; and every job the caller took while it waited
\* was marked ready, had its callable run on the calling thread and has
\* m_done true when the caller goes on to notify.
C14_AssistUntilJobDone ==
    [][ /\ (asst.mode = "ajd" /\ asst'.mode # "ajd")
            => (done[asst.target] /\ done'[asst.target])
        /\ (asst'.mode = "ajd" /\ th'[Main].pc = "start")
            => ready'[th'[Main].job]
        /\ (asst'.mode = "ajd" /\ th'[Main].pc = "notify")
            => (finished'[th'[Main].job] /\ done'[th'[Main].job]) ]_vars

\* AssistUntilJobDone on the last job of a chain is at its while test with
\* the target done: it returns.
C14_Witness ==
    /\ asst.mode = "ajd"
    /\ th[Main].pc = "ajd_loop"
    /\ prog = Chain(2)
    /\ asst.target = opJob[3]
    /\ done[asst.target]
    /\ finished[asst.target]

C16_TakenOnlyReadyAndUnblocked ==
    [][ /\ \A j \in JobIds : started'[j] => ready'[j]
        /\ \A t \in ThreadIds :
              (th[t].pc = "pop_deps" /\ th'[t].pc = "start")
                  => (ready[th'[t].job] /\ deps[th'[t].job] = 0) ]_vars

\* The queue mutexes thread t holds.
HeldQueueLocks(t) == {w \in 1..MaxWorkers : qlock[w] = t}

\* The thread that holds the mutex thread t is blocked on, NoLock if t is
\* not blocked on a mutex: a queue mutex in PopNextJob or PushJob, or
\* s_signalLock in WorkerThreadProc.
WaitsFor(t) ==
    IF th[t].pc = "pop_lock" /\ qlock[th[t].q] # NoLock THEN qlock[th[t].q]
    ELSE IF th[t].pc = "w_lockSignal" /\ signalLock # NoLock THEN signalLock
    ELSE IF /\ t = Main /\ th[t].pc = "m_build" /\ ip < Len(prog)
            /\ prog[ip + 1] \in {"Do", "Together", "AddJob"}
            /\ AllocNode(b) # 0 \/ prog[ip + 1] = "AddJob"
            /\ ~AddJobGuard
    THEN qlock[AddJobTarget]
    ELSE NoLock

\* Following the holders from t ends, within n steps, at a thread that is
\* not blocked on a mutex.
RECURSIVE WaitEnds(_, _)
WaitEnds(t, n) ==
    IF WaitsFor(t) = NoLock THEN TRUE
    ELSE IF n = 0 THEN FALSE
    ELSE WaitEnds(WaitsFor(t), n - 1)

\* C17: no thread holds two queue mutexes at once, and the threads blocked
\* on a queue mutex or on s_signalLock never wait for one another in a
\* cycle: the holder at the end of every chain of waiters is free to run.
C17_NoTwoQueueLocksNoCycle ==
    /\ \A t \in ThreadIds : Cardinality(HeldQueueLocks(t)) <= 1
    /\ \A t \in ThreadIds : WaitEnds(t, MaxWorkers + 1)

\* A chain of waiters: a worker waits for s_signalLock, whose holder is a
\* thief waiting for the queue mutex of its peer, held by the scanning user
\* thread.
C17_Witness ==
    \E v, t \in 1..nWorkers :
        /\ v # t
        /\ WaitsFor(v) = t
        /\ signalLock = t
        /\ th[t].i > 0 /\ th[t].q # t
        /\ WaitsFor(t) = Main
        /\ HeldQueueLocks(Main) = {th[t].q}

\* C18 (liveness by the workers alone): under fair scheduling, with no
\* cancellation, no shutdown and no assisting call, a job that is ready and
\* whose predecessors are all done has its callable begun in the end.
C18_WorkersRunEveryReadyJob ==
    \A j \in JobIds :
        (ready[j] /\ \A p \in PredecessorsOf(j) : done[p]) ~> started[j]

\* C19: a call of AssistUntilDone returns in the end, whatever the queues
\* hold.
C19_AssistUntilDoneTerminates ==
    (asst.mode = "aud") ~> (asst.mode # "aud")

\* C20: when Shutdown( true ) has returned, every job that was ready has had
\* its callable run and is done; and no worker thread has left its loop
\* holding a job it took from a queue and never ran.
C20_ShutdownFinishesJobs ==
    /\ (finishJobs /\ th[Main].pc = "m_down")
          => \A j \in 1..nJobs : ready[j] => (finished[j] /\ done[j])
    /\ \A w \in 1..nWorkers :
          (finishJobs /\ m_hasShutDown[w])
              => (th[w].job = 0 \/ started[th[w].job])

\* JobManager::Shutdown has deleted the workers and returned.
WorkersDestroyed == th[Main].pc = "m_down"

Runnable(j) == ready[j] /\ ~cancel[j] /\ deps[j] = 0 /\ ~done[j]

\* C22 (LIFO within a queue): when a scan takes an entry from a queue, no
\* entry in front of it (pushed after it) is runnable.
C22_LifoWithinQueue ==
    [][ \A t \in ThreadIds :
            (th[t].pc = "pop_deps" /\ th'[t].pc = "start")
                => \A m \in 1..(th[t].idx - 1) : ~Runnable(queue[th[t].q][m]) ]_vars

\* Groups opened inside a group: Together(), a Do() or none, a second
\* Together(), a Do() or none, both groups closed, and a Then().Do() or
\* nothing after them, as far as the node pool allows.
NestedTail == {<<>>, <<"Then", "Do">>}

NestedProgram(a, k, tail) ==
    <<"Together">> \o Rep("Do", a) \o <<"Together">> \o Rep("Do", k)
        \o <<"Close", "Close">> \o tail

NestedShapes == (0..1) \X (0..1) \X NestedTail

NestedPrograms ==
    {NestedProgram(x[1], x[2], x[3]) :
        x \in {y \in NestedShapes : 2 + y[1] + y[2] + Len(y[3]) \div 2 <= MaxJobs}}

InitNested == InitWith(NestedPrograms)

SpecNested == InitNested /\ [][NextNoCancel]_vars

\* The worker threads alone, as in SpecWorkers, every worker's descriptor
\* having m_enableWorkStealing = false: PopNextJob scans the worker's own
\* queue only.
InitNoStealing == InitDesc(OrderedPrograms, FALSE)

SpecNoStealing ==
    /\ InitNoStealing
    /\ [][NextWorkers]_vars
    /\ SF_vars(BuildAndGo)
    /\ \A w \in 1..MaxWorkers : SF_vars(WorkerStep(w))

\* The threads that, with thread records thr, hold job j between taking it
\* from a queue and the end of its SetDone.
Holders(thr, j) ==
    {t \in ThreadIds : thr[t].job = j /\ thr[t].pc \in {"start", "run", "sd", "notify"}}

\* Job j has an entry in the queues qs.
InQueue(qs, j) ==
    \E w \in 1..MaxWorkers : \E k \in 1..Len(qs[w]) : qs[w][k] = j

\* No job has two entries in the queues qs.
NoDuplicates(qs) ==
    \A w1, w2 \in 1..MaxWorkers :
        \A k1 \in 1..Len(qs[w1]) : \A k2 \in 1..Len(qs[w2]) :
            qs[w1][k1] = qs[w2][k2] => (w1 = w2 /\ k1 = k2)

\* C23 (at most once): a callable never begins a second time; the thread
\* that takes an entry is the only one to hold that job, and the entry is
\* then in no queue; and no job has two entries.
C23_ExecutedAtMostOnce ==
    [][ /\ \A t \in ThreadIds :
              (th[t].pc = "start" /\ th'[t].pc = "run") => ~started[th[t].job]
        /\ \A t \in ThreadIds :
              (th[t].pc = "pop_deps" /\ th'[t].pc = "start")
                  => LET j == queue[th[t].q][th[t].idx]
                     IN /\ th'[t].job = j
                        /\ Holders(th', j) = {t}
                        /\ ~InQueue(queue', j)
        /\ NoDuplicates(queue') ]_vars

\* The assisting user thread runs the second job of a chain, which a
\* worker ran the first job of, while a worker is about to scan a queue.
C23_Witness ==
    /\ prog = Chain(2)
    /\ ip = Len(prog)
    /\ asst.mode = "ajd"
    /\ th[Main].pc = "run"
    /\ th[Main].job = opJob[3]
    /\ Holders(th, opJob[3]) = {Main}
    /\ ~InQueue(queue, opJob[3])
    /\ finished[opJob[1]]
    /\ \E t \in 1..nWorkers : th[t].pc = "pop_lock"

\* m_workers.size(): zero once Shutdown has cleared the vector.
WorkerCount == IF WorkersDestroyed THEN 0 ELSE nWorkers

\* C24: whenever the manager has N >= 1 workers, the round-robin cursor is
\* less than N.
C24_CursorWithinWorkers ==
    WorkerCount >= 1 => rr < WorkerCount

\* Positions in a nested program: the inner Together(), the first Close().
InnerTogether == CHOOSE i \in 2..Len(prog) : prog[i] = "Together"
FirstClose == CHOOSE i \in 1..Len(prog) : prog[i] = "Close" /\ \A m \in 1..(i - 1) : prog[m] # "Close"

\* The inner group's join job and the inner group's members.
InnerJobs == {opJob[i] : i \in InnerTogether..(FirstClose - 1)}

\* C25 (nested groups): once a nested program is built, the outer group's
\* join job has run only if the inner group's join job and every inner
\* member have run, and the job added after Then() begins only then.
C25_NestedGroupsJoin ==
    (prog \in NestedPrograms /\ ip = Len(prog))
        => /\ finished[opJob[1]] => \A j \in InnerJobs : finished[j]
           /\ prog[Len(prog)] = "Do" /\ started[opJob[Len(prog)]]
                  => \A j \in InnerJobs : finished[j]

\* Go() has returned: every job of the builder is ready and was notified.
GoReturned == ip = Len(prog) /\ th[Main].pc = "m_idle"

\* No worker thread is between the start of a scan and the wait() that
\* follows a scan that found nothing.
NoScanUnderWay ==
    \A w \in 1..nWorkers :
        th[w].pc \notin {"pop_lock", "pop_scan", "pop_erase", "pop_deps", "w_wait"}

\* Job j is ready and waits only for predecessors that are running now.
AwaitsRunning(j) ==
    /\ ready[j]
    /\ deps[j] > 0
    /\ \A p \in PredecessorsOf(j) : started[p]

\* C26 (no work stealing): with stealing disabled on every worker, no
\* assisting thread and fair scheduling, when Go() has returned and every
\* scan begun before that is over, a ready job whose remaining predecessors
\* are running has its own callable begun in the end, by the worker that
\* owns its queue: that worker is woken when the predecessors complete.
C26_OwnersRunDependants ==
    \A j \in JobIds :
        (/\ GoReturned
         /\ NoScanUnderWay
         /\ \A w \in 1..nWorkers : ~m_enableWorkStealing[w]
         /\ AwaitsRunning(j))
            ~> started[j]
====
